---- MODULE Spec2Model ----
(***************************************************************************)
(* Model of src/main.rs: a salsa (v0.15.1) query group `SourceDatabase`    *)
(* with two inputs (file_name, source_text) and five memoized derived      *)
(* queries (source_length, line_starts, line_start, line_index,            *)
(* line_range), plus the `FileCache` adapter implementing                  *)
(* codespan_reporting's `Files`.                                           *)
(*                                                                         *)
(* Representation                                                          *)
(*   String            a sequence of bytes (numbers); '\n' is the byte NL   *)
(*   usize             0 .. USIZE_MAX                                       *)
(*   Option<T>         a sequence of length <= 1: None = <<>>, Some(x)=<<x>>*)
(*   Range<usize>      a pair <<start, end>>                                *)
(*   Vec<usize>        a sequence; Rust index i is TLA+ index i + 1         *)
(*   query key         <<query name, file, argument>> (argument 0 when the  *)
(*                     query takes only the file)                           *)
(***************************************************************************)
EXTENDS Integers, Sequences, FiniteSets, TLC

\* ------------------------------------------------------------------ bounds
\* Longest source text explored, in bytes.
MaxLen == 3
\* Largest small query argument explored (line_index / byte_index).
MaxArg == 5
\* Width of usize in bits in the model.
UsizeBits == 4
\* Number of input writes explored in one run of Spec.
MaxWrites == 2
\* Number of read operations explored in one run of Spec.
MaxReads == 2
\* Number of read operations explored on a loaded database (SpecLoaded).
MaxLoadedReads == 1

\* ------------------------------------------------------- program constants
\* The byte '\n' searched for by line_starts.
NL == 10
\* Revision::start() of the salsa runtime.
StartRevision == 1

USIZE_MAX == 2 ^ UsizeBits - 1

FileIds == {0, 1}
Names == {"crime.rs", "other.rs"}
\* The bytes of the texts explored: '\n' and 'a'.
Bytes == {NL, 97}
Texts == UNION {[1 .. n -> Bytes] : n \in 0 .. MaxLen}
Args == (0 .. MaxArg) \cup {USIZE_MAX}
\* The inputs of the runs that interleave writes and reads: the texts of at
\* most one byte, and the arguments 0 and 1.
ShortTexts == {t \in Texts : Len(t) <= 1}
ShortArgs == {0, 1}

None == <<>>
Some(x) == <<x>>

\* ------------------------------------------------- line-index algorithms
\* str::len: the byte length.
StrLen(text) == Len(text)

\* usize subtraction and addition: the wrapped value, and whether it wrapped.
SubUsize(a, b) == [v |-> (a - b) % (USIZE_MAX + 1), wrapped |-> a < b]
AddUsize(a, b) == [v |-> (a + b) % (USIZE_MAX + 1), wrapped |-> a + b > USIZE_MAX]

\* Mutant of MatchIndicesPlusOne: the offset of each '\n', not the one after.
RECURSIVE MatchIndicesOfNewline(_, _)
MatchIndicesOfNewline(text, from) ==
    IF from >= Len(text) THEN <<>>
    ELSE IF text[from + 1] = NL
         THEN <<from>> \o MatchIndicesOfNewline(text, from + 1)
         ELSE MatchIndicesOfNewline(text, from + 1)

\* str::match_indices('\n') mapped through |(i, _)| i + 1: for each byte
\* offset i (0-based) holding '\n', in ascending order, the offset i + 1.
RECURSIVE MatchIndicesPlusOne(_, _)
MatchIndicesPlusOne(text, from) ==
    IF from >= Len(text) THEN <<>>
    ELSE IF text[from + 1] = NL
         THEN <<AddUsize(from, 1).v>> \o MatchIndicesPlusOne(text, from + 1)
         ELSE MatchIndicesPlusOne(text, from + 1)

\* Body of line_starts on the text it reads: once(0).chain(...).collect().
LineStartsBody(text) == <<0>> \o MatchIndicesPlusOne(text, 0)

\* Whether an `i + 1` in line_starts wraps.
LineStartsWraps(text) ==
    \E i \in 0 .. Len(text) - 1 : text[i + 1] = NL /\ AddUsize(i, 1).wrapped

\* Mutant of BinarySearchLoop: the probe compares with >= and so steps over
\* an element equal to x.
RECURSIVE BinarySearchLoopSkippingEqual(_, _, _, _)
BinarySearchLoopSkippingEqual(s, x, base, size) ==
    IF size > 1
    THEN LET half == size \div 2
             mid  == base + half
         IN BinarySearchLoopSkippingEqual(s, x, IF s[mid + 1] >= x THEN base ELSE mid,
                                          size - half)
    ELSE base

\* The loop of slice::binary_search: narrows [base, base + size) by halves.
RECURSIVE BinarySearchLoop(_, _, _, _)
BinarySearchLoop(s, x, base, size) ==
    IF size > 1
    THEN LET half == size \div 2
             mid  == base + half
         IN BinarySearchLoop(s, x, IF s[mid + 1] > x THEN base ELSE mid, size - half)
    ELSE base

\* Mutant of BinarySearch: Err carries the last probe, not the insertion point.
BinarySearchErrAtProbe(s, x) ==
    IF Len(s) = 0 THEN [ok |-> FALSE, idx |-> 0]
    ELSE LET base == BinarySearchLoop(s, x, 0, Len(s))
         IN IF s[base + 1] = x THEN [ok |-> TRUE, idx |-> base]
            ELSE [ok |-> FALSE, idx |-> base]

\* slice::binary_search(&x): Ok(i) as [ok |-> TRUE, idx |-> i], Err(i) as
\* [ok |-> FALSE, idx |-> i] (the insertion point).
BinarySearch(s, x) ==
    IF Len(s) = 0 THEN [ok |-> FALSE, idx |-> 0]
    ELSE LET base == BinarySearchLoop(s, x, 0, Len(s))
         IN IF s[base + 1] = x THEN [ok |-> TRUE, idx |-> base]
            ELSE [ok |-> FALSE, idx |-> base + (IF s[base + 1] < x THEN 1 ELSE 0)]

\* Mutant of LineIndexBody: Err(next_line) answers next_line itself.
LineIndexBodyNextLine(starts, byte_index) ==
    LET r == BinarySearch(starts, byte_index)
    IN Some(r.idx)

\* Body of line_index on the line_starts it reads.
LineIndexBody(starts, byte_index) ==
    LET r == BinarySearch(starts, byte_index)
    IN IF r.ok THEN Some(r.idx) ELSE Some(SubUsize(r.idx, 1).v)

\* Whether `next_line - 1` in line_index wraps below zero.
LineIndexWraps(starts, byte_index) ==
    LET r == BinarySearch(starts, byte_index)
    IN ~r.ok /\ SubUsize(r.idx, 1).wrapped

\* line_index.cmp(&line_starts.len())
CmpLen(line_index, starts) ==
    IF line_index < Len(starts) THEN "Less"
    ELSE IF line_index = Len(starts) THEN "Equal" ELSE "Greater"

\* Mutant of LineStartBody: no end-of-file sentinel, Equal is out of range.
LineStartBodyNoSentinel(starts, length, line_index) ==
    IF line_index < Len(starts) THEN Some(starts[line_index + 1]) ELSE None

\* Body of line_start on the line_starts and (in the Equal arm) the
\* source_length it reads.
LineStartBody(starts, length, line_index) ==
    CASE CmpLen(line_index, starts) = "Less"    -> Some(starts[line_index + 1])
      [] CmpLen(line_index, starts) = "Equal"   -> Some(length)
      [] CmpLen(line_index, starts) = "Greater" -> None

\* Mutant of LineRangeBody: the endpoints swapped.
LineRangeBodySwapped(start, end) ==
    IF start = None THEN None
    ELSE IF end = None THEN None
    ELSE Some(<<end[1], start[1]>>)

\* Body of line_range on the two line_start results it reads: `?` returns
\* None on the first absent endpoint, otherwise Some(start..end).
LineRangeBody(start, end) ==
    IF start = None THEN None
    ELSE IF end = None THEN None
    ELSE Some(<<start[1], end[1]>>)

\* The query functions applied to a text with nothing memoized: each read of
\* another query is that query's function on the same text.
PureLineStart(text, line_index) ==
    LineStartBody(LineStartsBody(text), StrLen(text), line_index)

PureLineIndex(text, byte_index) == LineIndexBody(LineStartsBody(text), byte_index)

PureLineRange(text, line_index) ==
    IF PureLineStart(text, line_index) = None THEN None
    ELSE LineRangeBody(PureLineStart(text, line_index),
                       PureLineStart(text, AddUsize(line_index, 1).v))

\* ------------------------------------------------------------------ state
VARIABLES
    file_name,    \* input storage of file_name: FileId -> slot
    source_text,  \* input storage of source_text: FileId -> slot
    revision,     \* the runtime's current revision
    memos,        \* derived storage: query key -> memo, for the keys memoized
    lastOp,       \* the last operation called: [op, f, a]
    result,       \* what the last operation returned
    executed,     \* the query keys whose function ran during the last operation
    panicked,     \* the last operation panicked (no handler: the process ends)
    wrapped,      \* a usize operation of the last operation wrapped
    reads,        \* number of read operations so far
    written,      \* history: the last value passed to each setter, as an Option
    returned,     \* history: query key -> [value, at]: what the last call
                  \*   of the query returned and the revision it was called in
    previous,     \* history: the `returned` entry of the last operation as it
                  \*   was before that call, as an Option
    runs,         \* history: query key -> number of times its function ran
                  \*   since the last set_source_text of its file
    depth,        \* the deepest nesting of query functions in progress during
                  \*   the last operation
    cycle,        \* the last operation requested a query already in progress
    before        \* history: as the last setter found the database: each
                  \*   input slot, and for each derived query key what
                  \*   evaluating it would have done (empty after a read)

vars == <<file_name, source_text, revision, memos, lastOp, result, executed,
          panicked, wrapped, reads, written, returned, previous, runs, depth, cycle,
          before>>

\* An input slot nobody has set, and a slot as a setter leaves it.
NotSet(empty) == [set |-> FALSE, value |-> empty, changed_at |-> 0]
\* Mutant of Stamped: the slot keeps the revision the setter found.
StampedBehind(v, rev) == [set |-> TRUE, value |-> v, changed_at |-> rev - 1]
Stamped(v, rev) == [set |-> TRUE, value |-> v, changed_at |-> rev]

InputQueries == {"file_name", "source_text"}
DerivedQueries == {"source_length", "line_starts", "line_start", "line_index", "line_range"}
Key(q, f, a) == <<q, f, a>>

\* The storage of an input query.
InputSlot(key) ==
    IF key[1] = "file_name" THEN file_name[key[2]] ELSE source_text[key[2]]

\* Mutant of ReadInput: a slot never set reads as its empty value.
ReadInputDefaulting(key) ==
    LET slot == InputSlot(key)
    IN [panic |-> FALSE, value |-> slot.value, changed_at |-> slot.changed_at]

\* Reading an input: the stamped value, or a panic when it was never set.
ReadInput(key) ==
    LET slot == InputSlot(key)
    IN [panic |-> ~slot.set, value |-> slot.value, changed_at |-> slot.changed_at]

MaxRev(a, b) == IF a >= b THEN a ELSE b

\* ----------------------------------------------------- derivation engine
\* The engine threads `st` = [memos, executed, wrapped, stack, depth, cycle]
\* through nested reads: `stack` holds the queries whose function is in
\* progress, the innermost last.
\* A read answers [st, panic, value, changed_at]; an execution adds deps.
Answer(st, value, changed_at, deps) ==
    [st |-> st, panic |-> FALSE, value |-> value, changed_at |-> changed_at, deps |-> deps]
Unwind(st) ==
    [st |-> st, panic |-> TRUE, value |-> None, changed_at |-> 0, deps |-> <<>>]

RECURSIVE Read(_, _)
RECURSIVE Execute(_, _)
RECURSIVE Validate(_, _, _)

\* The function of the query is in progress on the stack.
InProgress(st, key) == \E j \in 1 .. Len(st.stack) : st.stack[j] = key

\* A memoized query has a verified memo of the current revision.
VerifiedNow(ms, key) == key \in DOMAIN ms /\ ms[key].verified_at = revision

\* Mutant of MaybeChangedSince: no dependency is ever seen as changed.
MaybeChangedSinceNever(st, dep, since) == [st |-> st, changed |-> FALSE]

\* Mutant of MaybeChangedSince: an input counts as changed when any input was
\* written since, whichever slot it was.
MaybeChangedSinceAnyWrite(st, dep, since) ==
    IF dep[1] \in InputQueries
    THEN [st |-> st, changed |-> revision > since]
    ELSE LET r == Read(st, dep)
         IN [st |-> r.st, changed |-> r.panic \/ r.changed_at > since]

\* maybe_changed_since of one dependency: an input changed when its stamp is
\* newer; a derived query is brought up to date (re-executed when one of its
\* own dependencies changed) and changed when its changed_at is newer.
MaybeChangedSince(st, dep, since) ==
    IF dep[1] \in InputQueries
    THEN [st |-> st, changed |-> InputSlot(dep).changed_at > since]
    ELSE LET r == Read(st, dep)
         IN [st |-> r.st, changed |-> r.panic \/ r.changed_at > since]

\* inputs.iter().find(|input| maybe_changed_since(input, verified_at)): the
\* dependencies in the order recorded, stopping at the first changed one.
Validate(st, deps, since) ==
    IF deps = <<>> THEN [st |-> st, changed |-> FALSE]
    ELSE LET c == MaybeChangedSince(st, Head(deps), since)
         IN IF c.changed THEN c ELSE Validate(c.st, Tail(deps), since)

\* The query functions of lines 101-135, reading through the database.
ExecSourceLength(st, f) ==
    LET k == Key("source_text", f, 0)
        t == ReadInput(k)
    IN IF t.panic THEN Unwind(st)
       ELSE Answer(st, StrLen(t.value), t.changed_at, <<k>>)

\* Mutant of ExecLineStarts: line_starts asks line_start for the first start,
\* closing a cycle with line_start's read of line_starts.
ExecLineStartsThroughLineStart(st, f) ==
    LET k == Key("source_text", f, 0)
        t == ReadInput(k)
        r == Read(st, Key("line_start", f, 0))
    IN IF t.panic \/ r.panic THEN Unwind(r.st)
       ELSE Answer(r.st, LineStartsBody(t.value), t.changed_at, <<k>>)

ExecLineStarts(st, f) ==
    LET k == Key("source_text", f, 0)
        t == ReadInput(k)
    IN IF t.panic THEN Unwind(st)
       ELSE Answer([st EXCEPT !.wrapped = @ \/ LineStartsWraps(t.value)],
                   LineStartsBody(t.value), t.changed_at, <<k>>)

ExecLineStart(st, f, line_index) ==
    LET k1 == Key("line_starts", f, 0)
        k2 == Key("source_length", f, 0)
        r1 == Read(st, k1)
    IN IF r1.panic THEN Unwind(r1.st)
       ELSE IF CmpLen(line_index, r1.value) = "Equal"
       THEN LET r2 == Read(r1.st, k2)
            IN IF r2.panic THEN Unwind(r2.st)
               ELSE Answer(r2.st, LineStartBody(r1.value, r2.value, line_index),
                           MaxRev(r1.changed_at, r2.changed_at), <<k1, k2>>)
       ELSE Answer(r1.st, LineStartBody(r1.value, 0, line_index), r1.changed_at, <<k1>>)

ExecLineIndex(st, f, byte_index) ==
    LET k1 == Key("line_starts", f, 0)
        r1 == Read(st, k1)
    IN IF r1.panic THEN Unwind(r1.st)
       ELSE Answer([r1.st EXCEPT !.wrapped = @ \/ LineIndexWraps(r1.value, byte_index)],
                   LineIndexBody(r1.value, byte_index), r1.changed_at, <<k1>>)

\* Mutant of ExecLineRange: `line_index + 1` and both line_start reads come
\* before the first `?`.
ExecLineRangeEagerEnd(st, f, line_index) ==
    LET k1   == Key("line_start", f, line_index)
        next == AddUsize(line_index, 1)
        k2   == Key("line_start", f, next.v)
        r1   == Read(st, k1)
        r2   == Read([r1.st EXCEPT !.wrapped = @ \/ next.wrapped], k2)
    IN IF r1.panic \/ r2.panic THEN Unwind(r2.st)
       ELSE Answer(r2.st, LineRangeBody(r1.value, r2.value),
                   MaxRev(r1.changed_at, r2.changed_at), <<k1, k2>>)

ExecLineRange(st, f, line_index) ==
    LET k1 == Key("line_start", f, line_index)
        r1 == Read(st, k1)
    IN IF r1.panic THEN Unwind(r1.st)
       ELSE IF r1.value = None
       THEN Answer(r1.st, LineRangeBody(r1.value, None), r1.changed_at, <<k1>>)
       ELSE LET next == AddUsize(line_index, 1)
                k2   == Key("line_start", f, next.v)
                r2   == Read([r1.st EXCEPT !.wrapped = @ \/ next.wrapped], k2)
            IN IF r2.panic THEN Unwind(r2.st)
               ELSE Answer(r2.st, LineRangeBody(r1.value, r2.value),
                           MaxRev(r1.changed_at, r2.changed_at), <<k1, k2>>)

\* Running a query function: it is recorded as executed and in progress,
\* dispatched, and no longer in progress when it returns or unwinds.
Execute(st, key) ==
    LET st0 == [st EXCEPT !.executed = @ \cup {key},
                          !.stack = Append(@, key),
                          !.depth = MaxRev(@, Len(st.stack) + 1)]
        r == CASE key[1] = "source_length" -> ExecSourceLength(st0, key[2])
               [] key[1] = "line_starts"   -> ExecLineStarts(st0, key[2])
               [] key[1] = "line_start"    -> ExecLineStart(st0, key[2], key[3])
               [] key[1] = "line_index"    -> ExecLineIndex(st0, key[2], key[3])
               [] key[1] = "line_range"    -> ExecLineRange(st0, key[2], key[3])
    IN [r EXCEPT !.st.stack = st.stack]

\* Mutant of NewMemo: changed_at is always the newest stamp read, also when
\* the value is equal to the old one.
NewMemoStamping(old, hasOld, e) ==
    [value       |-> e.value,
     verified_at |-> revision,
     changed_at  |-> e.changed_at,
     deps        |-> e.deps]

\* The memo stored after an execution: verified now; changed_at is the newest
\* stamp read, kept at the old memo's when the value is equal to the old one.
NewMemo(old, hasOld, e) ==
    [value       |-> e.value,
     verified_at |-> revision,
     changed_at  |-> IF hasOld /\ old.value = e.value THEN old.changed_at ELSE e.changed_at,
     deps        |-> e.deps]

\* Mutant of Read: the memo is never consulted, the function always runs.
ReadRecomputing(st, key) ==
    LET e == Execute(st, key)
    IN IF e.panic THEN e
       ELSE LET m == NewMemo(e, FALSE, e)
            IN Answer([e.st EXCEPT !.memos = (key :> m) @@ @],
                      m.value, m.changed_at, m.deps)

\* Reading a memoized derived query: requesting a query that is in progress
\* is a cycle, and the runtime panics; a memo verified in this revision is
\* returned; an older one is returned when none of its dependencies changed
\* since it was verified; otherwise the function is executed and memoized.
Read(st, key) ==
    IF InProgress(st, key) THEN Unwind([st EXCEPT !.cycle = TRUE])
    ELSE IF VerifiedNow(st.memos, key)
    THEN Answer(st, st.memos[key].value, st.memos[key].changed_at, st.memos[key].deps)
    ELSE LET hasOld == key \in DOMAIN st.memos
             v == IF hasOld
                  THEN Validate(st, st.memos[key].deps, st.memos[key].verified_at)
                  ELSE [st |-> st, changed |-> TRUE]
         IN IF ~v.changed
            THEN Answer([v.st EXCEPT !.memos[key].verified_at = revision],
                        st.memos[key].value, st.memos[key].changed_at, st.memos[key].deps)
            ELSE LET e == Execute(v.st, key)
                 IN IF e.panic THEN e
                    ELSE LET m == NewMemo(IF hasOld THEN st.memos[key] ELSE e, hasOld, e)
                         IN Answer([e.st EXCEPT !.memos = (key :> m) @@ @],
                                   m.value, m.changed_at, m.deps)

\* The engine with no query in progress, on the database as it stands.
Idle == [memos |-> memos, executed |-> {}, wrapped |-> FALSE,
         stack |-> <<>>, depth |-> 0, cycle |-> FALSE]

\* A top-level call of a derived query on the database as it stands.
Fetch(key) == Read(Idle, key)

\* ---------------------------------------------------------------- history
\* The input keys and the derived query keys (over the short arguments) of a
\* file.
InputKeys(f) == {Key(q, f, 0) : q \in InputQueries}
DerivedKeys(f) ==
    {Key(q, f, 0) : q \in {"source_length", "line_starts"}}
    \cup {Key(q, f, a) : q \in {"line_start", "line_index", "line_range"}, a \in ShortArgs}

\* What evaluating a derived query in the current state would do: panic or
\* not, the value, the functions run.
Observe(k) ==
    LET r == Fetch(k)
    IN [panic |-> r.panic, value |-> r.value, executed |-> r.st.executed]

\* The database as an operation finds it.
Snapshot ==
    [k \in UNION {InputKeys(f) \cup DerivedKeys(f) : f \in FileIds} |->
        IF k[1] \in InputQueries THEN InputSlot(k) ELSE Observe(k)]

\* ------------------------------------------------------------- operations
Op(op, f, a) == [op |-> op, f |-> f, a |-> a]

\* Database::default(): no input set, nothing memoized.
Init ==
    /\ file_name = [f \in FileIds |-> NotSet("")]
    /\ source_text = [f \in FileIds |-> NotSet(<<>>)]
    /\ revision = StartRevision
    /\ memos = <<>>
    /\ lastOp = Op("default", 0, 0)
    /\ result = None
    /\ executed = {}
    /\ panicked = FALSE
    /\ wrapped = FALSE
    /\ reads = 0
    /\ written = [q \in InputQueries |-> [f \in FileIds |-> None]]
    /\ returned = <<>>
    /\ previous = None
    /\ runs = <<>>
    /\ depth = 0
    /\ cycle = FALSE
    /\ before = <<>>

\* Mutant of AfterSet: the setter eagerly drops the memos of the file.
AfterSetEager(op, f) ==
    /\ revision' = revision + 1
    /\ lastOp' = Op(op, f, 0)
    /\ result' = None
    /\ executed' = {}
    /\ previous' = None
    /\ depth' = 0
    /\ cycle' = FALSE
    /\ before' = Snapshot
    /\ memos' = [k \in {j \in DOMAIN memos : j[2] # f} |-> memos[k]]
    /\ UNCHANGED <<panicked, wrapped, reads, returned>>

\* What a setter reports and leaves alone: a new revision, nothing executed.
AfterSet(op, f) ==
    /\ revision' = revision + 1
    /\ lastOp' = Op(op, f, 0)
    /\ result' = None
    /\ executed' = {}
    /\ previous' = None
    /\ depth' = 0
    /\ cycle' = FALSE
    /\ before' = Snapshot
    /\ UNCHANGED <<memos, panicked, wrapped, reads, returned>>

\* set_file_name(file, value): a new revision, stamped on the slot.
SetFileName(f, v) ==
    /\ ~panicked
    /\ file_name' = [file_name EXCEPT ![f] = Stamped(v, revision + 1)]
    /\ written' = [written EXCEPT !["file_name"][f] = Some(v)]
    /\ AfterSet("set_file_name", f)
    /\ UNCHANGED <<source_text, runs>>

\* set_source_text(file, value)
SetSourceText(f, t) ==
    /\ ~panicked
    /\ source_text' = [source_text EXCEPT ![f] = Stamped(t, revision + 1)]
    /\ written' = [written EXCEPT !["source_text"][f] = Some(t)]
    /\ AfterSet("set_source_text", f)
    /\ runs' = [k \in {j \in DOMAIN runs : j[2] # f} |-> runs[k]]
    /\ UNCHANGED file_name

\* The query an operation evaluates: the adapter's line lookups are the
\* database's queries.
QueryOf(op) ==
    CASE op = "Files::line_index" -> "line_index"
      [] op = "Files::line_range" -> "line_range"
      [] OTHER -> op

\* A read operation answering `r` (of the shape of Read's answers) and handing
\* `value` to its caller, or panicking.
Returns(op, f, a, r, value) ==
    /\ ~panicked
    /\ lastOp' = Op(op, f, a)
    /\ result' = IF r.panic THEN None ELSE value
    /\ panicked' = r.panic
    /\ memos' = r.st.memos
    /\ executed' = r.st.executed
    /\ wrapped' = r.st.wrapped
    /\ depth' = r.st.depth
    /\ cycle' = r.st.cycle
    /\ reads' = reads + 1
    /\ returned' = IF r.panic THEN returned
                   ELSE (Key(QueryOf(op), f, a) :> [value |-> value, at |-> revision])
                        @@ returned
    /\ previous' = IF Key(QueryOf(op), f, a) \in DOMAIN returned
                   THEN Some(returned[Key(QueryOf(op), f, a)]) ELSE None
    /\ runs' = [k \in DOMAIN runs \cup r.st.executed |->
                   (IF k \in DOMAIN runs THEN runs[k] ELSE 0)
                   + (IF k \in r.st.executed THEN 1 ELSE 0)]
    /\ before' = <<>>
    /\ UNCHANGED <<file_name, source_text, revision, written>>

\* An input read leaves the derived storage alone.
InputAnswer(key) ==
    LET t == ReadInput(key)
    IN [st |-> Idle, panic |-> t.panic, value |-> t.value]

\* db.file_name(file)
FileName(f) ==
    LET r == InputAnswer(Key("file_name", f, 0))
    IN Returns("file_name", f, 0, r, r.value)

\* db.source_text(file)
SourceText(f) ==
    LET r == InputAnswer(Key("source_text", f, 0))
    IN Returns("source_text", f, 0, r, r.value)

\* db.source_length(file)
SourceLength(f) ==
    LET r == Fetch(Key("source_length", f, 0))
    IN Returns("source_length", f, 0, r, r.value)

\* db.line_starts(file)
LineStarts(f) ==
    LET r == Fetch(Key("line_starts", f, 0))
    IN Returns("line_starts", f, 0, r, r.value)

\* db.line_start(file, line_index)
LineStart(f, i) ==
    LET r == Fetch(Key("line_start", f, i))
    IN Returns("line_start", f, i, r, r.value)

\* db.line_index(file, byte_index)
LineIndex(f, b) ==
    LET r == Fetch(Key("line_index", f, b))
    IN Returns("line_index", f, b, r, r.value)

\* db.line_range(file, line_index)
LineRange(f, i) ==
    LET r == Fetch(Key("line_range", f, i))
    IN Returns("line_range", f, i, r, r.value)

\* Files::name: Some(file_name(file).as_ref().clone())
FilesName(f) ==
    LET r == InputAnswer(Key("file_name", f, 0))
    IN Returns("Files::name", f, 0, r, Some(r.value))

\* Files::source: Some(source_text(file).as_ref().clone())
FilesSource(f) ==
    LET r == InputAnswer(Key("source_text", f, 0))
    IN Returns("Files::source", f, 0, r, Some(r.value))

\* Files::line_index: delegates to the query.
FilesLineIndex(f, b) ==
    LET r == Fetch(Key("line_index", f, b))
    IN Returns("Files::line_index", f, b, r, r.value)

\* Files::line_range: delegates to the query.
FilesLineRange(f, i) ==
    LET r == Fetch(Key("line_range", f, i))
    IN Returns("Files::line_range", f, i, r, r.value)

\* --------------------------------------------------------- specifications
\* The file main loads.
LoadedFile == 0

\* Any setter or read on a file of F, over the short texts and arguments,
\* within the numbers of writes and reads explored.
Steps(F) ==
    \/ revision - StartRevision < MaxWrites /\ \E f \in F, v \in Names : SetFileName(f, v)
    \/ revision - StartRevision < MaxWrites /\ \E f \in F, t \in ShortTexts : SetSourceText(f, t)
    \/ reads < MaxReads /\ \E f \in F : FileName(f)
    \/ reads < MaxReads /\ \E f \in F : SourceText(f)
    \/ reads < MaxReads /\ \E f \in F : SourceLength(f)
    \/ reads < MaxReads /\ \E f \in F : LineStarts(f)
    \/ reads < MaxReads /\ \E f \in F, i \in ShortArgs : LineStart(f, i)
    \/ reads < MaxReads /\ \E f \in F, b \in ShortArgs : LineIndex(f, b)
    \/ reads < MaxReads /\ \E f \in F, i \in ShortArgs : LineRange(f, i)
    \/ reads < MaxReads /\ \E f \in F : FilesName(f)
    \/ reads < MaxReads /\ \E f \in F : FilesSource(f)
    \/ reads < MaxReads /\ \E f \in F, b \in ShortArgs : FilesLineIndex(f, b)
    \/ reads < MaxReads /\ \E f \in F, i \in ShortArgs : FilesLineRange(f, i)

\* Spec: any interleaving of setters and reads on one file, from the empty
\* database.
Next == Steps({LoadedFile})

Spec == Init /\ [][Next]_vars

\* SpecFiles: the same on every file.
NextFiles == Steps(FileIds)

SpecFiles == Init /\ [][NextFiles]_vars

\* SpecLoaded: the database as main leaves it before parsing, file 0 named
\* and holding any text of at most MaxLen bytes, then read with any argument.
InitLoaded ==
    \E t \in Texts :
        /\ file_name = [f \in FileIds |-> IF f = LoadedFile
                                           THEN Stamped("crime.rs", StartRevision + 1)
                                           ELSE NotSet("")]
        /\ source_text = [f \in FileIds |-> IF f = LoadedFile
                                             THEN Stamped(t, StartRevision + 2)
                                             ELSE NotSet(<<>>)]
        /\ revision = StartRevision + 2
        /\ memos = <<>>
        /\ lastOp = Op("set_source_text", LoadedFile, 0)
        /\ result = None
        /\ executed = {}
        /\ panicked = FALSE
        /\ wrapped = FALSE
        /\ reads = 0
        /\ written = [q \in InputQueries |-> [f \in FileIds |->
                         IF f # LoadedFile THEN None
                         ELSE IF q = "file_name" THEN Some("crime.rs") ELSE Some(t)]]
        /\ returned = <<>>
        /\ previous = None
        /\ runs = <<>>
        /\ depth = 0
        /\ cycle = FALSE
        /\ before = <<>>

NextLoaded ==
    /\ reads < MaxLoadedReads
    /\ \/ FileName(LoadedFile)
       \/ SourceText(LoadedFile)
       \/ SourceLength(LoadedFile)
       \/ LineStarts(LoadedFile)
       \/ \E i \in Args : LineStart(LoadedFile, i)
       \/ \E b \in Args : LineIndex(LoadedFile, b)
       \/ \E i \in Args : LineRange(LoadedFile, i)
       \/ FilesName(LoadedFile)
       \/ FilesSource(LoadedFile)
       \/ \E b \in Args : FilesLineIndex(LoadedFile, b)
       \/ \E i \in Args : FilesLineRange(LoadedFile, i)

SpecLoaded == InitLoaded /\ [][NextLoaded]_vars

\* ----------------------------------------------------------------- claims
\* The text last written to a file, and the database's answer to a query
\* asked in the current state.
TextOf(f) == written["source_text"][f][1]
Ask(q, f, a) == Fetch(Key(q, f, a)).value

LineIndexOps == {"line_index", "Files::line_index"}
LineRangeOps == {"line_range", "Files::line_range"}
Did(ops) == lastOp.op \in ops /\ ~panicked

\* Offsets (0-based) of the '\n' bytes of a text.
NewlinesOf(text) == {p \in 0 .. Len(text) - 1 : text[p + 1] = NL}

\* C4: for any byte_index, line_index returns a present value, the greatest i
\* with line_starts[i] <= byte_index; at or beyond the end of the text that
\* is the last line; the `insertion point - 1` step never goes below zero.
C4_LineIndexGreatest ==
    Did(LineIndexOps) =>
        LET starts == Ask("line_starts", lastOp.f, 0)
            b      == lastOp.a
        IN /\ result # None
           /\ ~wrapped
           /\ result[1] \in 0 .. Len(starts) - 1
           /\ starts[result[1] + 1] <= b
           /\ \A j \in 0 .. Len(starts) - 1 : starts[j + 1] <= b => j <= result[1]
           /\ b >= Len(TextOf(lastOp.f)) => result[1] = Len(starts) - 1

\* A lookup beyond the end of a text of three lines answered the last line.
C4_Witness ==
    /\ Did(LineIndexOps)
    /\ lastOp.a > Len(TextOf(lastOp.f))
    /\ Len(Ask("line_starts", lastOp.f, 0)) = 3
    /\ result = Some(2)

\* C5: line_starts is 0 followed by p + 1 for each '\n' at offset p, in
\* ascending order: non-empty, first 0, strictly increasing, one element more
\* than there are '\n' bytes, every element <= the source length; with the
\* three examples of the specification.
C5_LineStartsShape ==
    /\ Did({"line_starts"}) =>
          LET text == TextOf(lastOp.f)
          IN /\ Len(result) = Cardinality(NewlinesOf(text)) + 1
             /\ result[1] = 0
             /\ {result[j] : j \in 2 .. Len(result)} = {p + 1 : p \in NewlinesOf(text)}
             /\ \A j \in 1 .. Len(result) - 1 : result[j] < result[j + 1]
             /\ \A j \in 1 .. Len(result) : result[j] <= Len(text)
    /\ LineStartsBody(<<97, 98, NL, 99, 100, NL>>) = <<0, 3, 6>>
    /\ LineStartsBody(<<>>) = <<0>>
    /\ LineStartsBody(<<97, 98, NL, 99, 100>>) = <<0, 3>>

\* line_starts of a text with two newlines, the first at offset 0.
C5_Witness ==
    /\ Did({"line_starts"})
    /\ TextOf(lastOp.f) = <<NL, 97, NL>>
    /\ result = <<0, 1, 3>>

\* C6: line_start returns line_starts[line_index] below |line_starts|, the
\* source length at |line_starts|, and absent above it.
C6_LineStartCases ==
    Did({"line_start"}) =>
        LET starts == Ask("line_starts", lastOp.f, 0)
            length == Len(TextOf(lastOp.f))
            i      == lastOp.a
        IN /\ i < Len(starts) => result = Some(starts[i + 1])
           /\ i = Len(starts) => result = Some(length)
           /\ i > Len(starts) => result = None

\* The sentinel case on a text whose last line is not empty.
C6_Witness ==
    /\ Did({"line_start"})
    /\ lastOp.a = Len(Ask("line_starts", lastOp.f, 0))
    /\ lastOp.a >= 2
    /\ result = Some(Len(TextOf(lastOp.f)))
    /\ result[1] > Ask("line_starts", lastOp.f, 0)[lastOp.a]

\* The end-to-end text of the specification: "line0\nline1\nline2\n".
Line012 == <<108, 105, 110, 101, 48, NL, 108, 105, 110, 101, 49, NL,
             108, 105, 110, 101, 50, NL>>

\* C7: line_range is [line_start(i), line_start(i + 1)) when both are present
\* and absent otherwise: present exactly for i < |line_starts|, and for the
\* last line its end is the source length; line_range(1) of the end-to-end
\* text is (6, 12).
C7_LineRangeCases ==
    /\ Did(LineRangeOps) =>
          LET starts == Ask("line_starts", lastOp.f, 0)
              i      == lastOp.a
              start  == Ask("line_start", lastOp.f, i)
              end    == Ask("line_start", lastOp.f, i + 1)
          IN /\ result = IF start # None /\ end # None
                         THEN Some(<<start[1], end[1]>>) ELSE None
             /\ result # None <=> i < Len(starts)
             /\ i = Len(starts) - 1 =>
                   result # None /\ result[1][2] = Len(TextOf(lastOp.f))
    /\ PureLineRange(Line012, 1) = Some(<<6, 12>>)

\* The range of the last of at least two lines, not empty, ending at the
\* source length.
C7_Witness ==
    /\ Did(LineRangeOps)
    /\ lastOp.a >= 1
    /\ lastOp.a = Len(Ask("line_starts", lastOp.f, 0)) - 1
    /\ result # None
    /\ result[1][1] < result[1][2]
    /\ result[1][2] = Len(TextOf(lastOp.f))

\* C8: for a line_index below the number of lines, line_index of
\* line_start(line_index) is line_index.
C8_RoundTrip ==
    (Did({"line_start"}) /\ lastOp.a < Len(Ask("line_starts", lastOp.f, 0))) =>
        /\ result # None
        /\ Ask("line_index", lastOp.f, result[1]) = Some(lastOp.a)

\* The start of the third line maps back to line 2.
C8_Witness ==
    /\ Did({"line_start"})
    /\ lastOp.a = 2
    /\ result # None
    /\ result[1] = MaxLen
    /\ Ask("line_index", lastOp.f, result[1]) = Some(2)

\* C10: for a byte_index b within the text or at its end, line_range of
\* line_index(b) is present, [s, e) with s <= b <= e <= length of source, and
\* b < e when b is below the length; and the end of a line's range is the
\* start of the next line's range when both are present.
C10_LookupsConsistent ==
    /\ (Did(LineIndexOps) /\ lastOp.a <= Len(source_text[lastOp.f].value)) =>
          /\ result # None
          /\ LET range  == Ask("line_range", lastOp.f, result[1])
                 length == Len(source_text[lastOp.f].value)
                 b      == lastOp.a
             IN /\ range # None
                /\ range[1][1] <= b
                /\ b <= range[1][2]
                /\ range[1][2] <= length
                /\ b < length => b < range[1][2]
    /\ (Did(LineRangeOps) /\ result # None) =>
          LET following == Ask("line_range", lastOp.f, lastOp.a + 1)
          IN following # None => result[1][2] = following[1][1]

\* The adapter looked up a byte strictly inside the second line.
C10_Witness ==
    /\ Did({"Files::line_index"})
    /\ result = Some(1)
    /\ LET range == Ask("line_range", lastOp.f, 1)
       IN /\ range # None
          /\ range[1][1] < lastOp.a
          /\ lastOp.a < range[1][2]

\* The operations that read, and the input each needs set.
ReadOps == {"file_name", "source_text", "source_length", "line_starts", "line_start",
            "line_index", "line_range", "Files::name", "Files::source",
            "Files::line_index", "Files::line_range"}
NeededInput(op) == IF op \in {"file_name", "Files::name"} THEN "file_name" ELSE "source_text"

\* The stored inputs are what the setters were last given.
StoreIsAsWritten ==
    \A f \in FileIds :
        /\ written["file_name"][f] =
              IF file_name[f].set THEN Some(file_name[f].value) ELSE None
        /\ written["source_text"][f] =
              IF source_text[f].set THEN Some(source_text[f].value) ELSE None

\* C1: every read returns the value of the most recent write: file_name and
\* source_text the last value set, each derived query what its function
\* yields on the text last set, never on an earlier one.
C1_ReadsSeeLastWrite ==
    Did(ReadOps) =>
        LET f == lastOp.f
            a == lastOp.a
        IN /\ written[NeededInput(lastOp.op)][f] # None
           /\ lastOp.op = "file_name" => result = written["file_name"][f][1]
           /\ lastOp.op = "Files::name" => result = written["file_name"][f]
           /\ lastOp.op = "source_text" => result = TextOf(f)
           /\ lastOp.op = "Files::source" => result = written["source_text"][f]
           /\ lastOp.op = "source_length" => result = StrLen(TextOf(f))
           /\ lastOp.op = "line_starts" => result = LineStartsBody(TextOf(f))
           /\ lastOp.op = "line_start" => result = PureLineStart(TextOf(f), a)
           /\ lastOp.op \in LineIndexOps => result = PureLineIndex(TextOf(f), a)
           /\ lastOp.op \in LineRangeOps => result = PureLineRange(TextOf(f), a)

\* A line_start answered in an earlier revision ran again and answers
\* differently now.
C1_Witness ==
    /\ Did({"line_start"})
    /\ previous # None
    /\ previous[1].at < revision
    /\ previous[1].value # result
    /\ Key("line_start", lastOp.f, lastOp.a) \in executed

\* C2: with no input write between two evaluations of a derived query with
\* the same key, the second returns the value of the first and runs no query
\* function; and no query function runs twice for the same key unless the
\* source text of its file was set in between.
C2_Memoized ==
    /\ (Did(DerivedQueries \cup LineIndexOps \cup LineRangeOps)
            /\ previous # None /\ previous[1].at = revision) =>
          /\ result = previous[1].value
          /\ executed = {}
    /\ \A k \in DOMAIN runs : runs[k] <= 1

\* A line_range evaluated twice in one revision: the second ran nothing.
C2_Witness ==
    /\ Did({"line_range"})
    /\ previous # None
    /\ previous[1].at = revision
    /\ result = previous[1].value
    /\ result # None
    /\ executed = {}
    /\ runs[Key("line_range", lastOp.f, lastOp.a)] = 1

\* C3 as stated: every read completes, with a value or an absent result, and
\* never aborts, also for a file whose input was never written; and the
\* stored inputs stay as written.
C3_ReadsNeverAbort ==
    /\ StoreIsAsWritten
    /\ lastOp.op \in ReadOps => ~panicked

\* C3 amended: a read panics exactly when the input it needs (file_name for
\* file_name and Files::name, source_text for every other read) was never
\* written for the file; otherwise it completes; either way the stored inputs
\* stay as written.
C3_ReadsPanicIffNotSet ==
    /\ StoreIsAsWritten
    /\ lastOp.op \in ReadOps =>
          (panicked <=> written[NeededInput(lastOp.op)][lastOp.f] = None)

\* A derived query panicked on a file that has a name and no text.
C3_Witness ==
    /\ panicked
    /\ lastOp.op = "line_range"
    /\ written["file_name"][lastOp.f] # None
    /\ written["source_text"][lastOp.f] = None

\* C9: set_file_name leaves every source_text, and for every file what each
\* derived query would return and which functions it would run, unchanged;
\* set_source_text leaves every file_name unchanged; and a setter on one file
\* leaves both inputs of every other file, and what each of its derived
\* queries would return and run, unchanged.
C9_SlotsIndependent ==
    /\ lastOp.op = "set_file_name" =>
          /\ \A g \in FileIds : source_text[g] = before[Key("source_text", g, 0)]
          /\ \A g \in FileIds \ {lastOp.f} : file_name[g] = before[Key("file_name", g, 0)]
          /\ \A g \in FileIds : \A k \in DerivedKeys(g) : Observe(k) = before[k]
    /\ lastOp.op = "set_source_text" =>
          /\ \A g \in FileIds : file_name[g] = before[Key("file_name", g, 0)]
          /\ \A g \in FileIds \ {lastOp.f} :
                /\ source_text[g] = before[Key("source_text", g, 0)]
                /\ \A k \in DerivedKeys(g) : Observe(k) = before[k]

\* set_file_name on a file whose line_range is memoized: evaluating it again
\* would run nothing, as before.
C9_Witness ==
    /\ lastOp.op = "set_file_name"
    /\ Key("line_range", lastOp.f, 0) \in DOMAIN memos
    /\ memos[Key("line_range", lastOp.f, 0)].verified_at < revision
    /\ Observe(Key("line_range", lastOp.f, 0)).executed = {}
    /\ before[Key("line_range", lastOp.f, 0)].executed = {}

\* The queries a query function reads through the database, by the calls in
\* its body: line_range the two line_start, line_start line_starts and
\* source_length, line_index line_starts; line_starts and source_length read
\* the input only.
ReadGraph(key) ==
    CASE key[1] = "line_range" ->
            {Key("line_start", key[2], key[3]),
             Key("line_start", key[2], AddUsize(key[3], 1).v)}
      [] key[1] = "line_start" ->
            {Key("line_starts", key[2], 0), Key("source_length", key[2], 0)}
      [] key[1] = "line_index" -> {Key("line_starts", key[2], 0)}
      [] OTHER -> {}

\* A query key and every query it reads, directly or through another.
ReadClosure(key) ==
    LET direct == {key} \cup ReadGraph(key)
    IN direct \cup UNION {ReadGraph(k) : k \in direct}

SetOps == {"set_file_name", "set_source_text"}
DerivedOps == DerivedQueries \cup LineIndexOps \cup LineRangeOps

\* C11: a setter runs no query function and leaves every memo as it was, so
\* with no evaluation after a write nothing is ever recomputed; a query
\* function runs, and a memo is created or changed, only in an evaluation of
\* that query or of a query that reads it.
C11_LazyRecomputation ==
    [][/\ lastOp'.op \in SetOps => (executed' = {} /\ memos' = memos)
       /\ \A k \in executed' \cup DOMAIN memos' :
             (k \in executed' \/ k \notin DOMAIN memos \/ memos'[k] # memos[k]) =>
                /\ lastOp'.op \in DerivedOps
                /\ k \in ReadClosure(Key(QueryOf(lastOp'.op), lastOp'.f, lastOp'.a))]_vars

\* After set_source_text the memo of line_starts still holds the starts of
\* the earlier text: nothing was recomputed.
C11_Witness ==
    /\ lastOp.op = "set_source_text"
    /\ executed = {}
    /\ Key("line_starts", lastOp.f, 0) \in DOMAIN memos
    /\ memos[Key("line_starts", lastOp.f, 0)].verified_at < revision
    /\ memos[Key("line_starts", lastOp.f, 0)].value # LineStartsBody(TextOf(lastOp.f))

\* The key the last operation evaluated, and the keys a memo recorded reading.
TopKey(op) == Key(QueryOf(op.op), op.f, op.a)
DepsOf(memo) == {memo.deps[j] : j \in 1 .. Len(memo.deps)}
ReadsInputOnly == {"source_length", "line_starts"}

\* C12 as stated: a cached value is reused exactly when the source text of
\* its file was not set since it was computed: whenever an evaluation of a
\* derived query completes, its function has run once since the last
\* set_source_text of the file, also when the text set is equal to the
\* earlier one or yields the same line_starts.
C12_ValidIffNoInputRewritten ==
    Did(DerivedOps) =>
        /\ TopKey(lastOp) \in DOMAIN runs
        /\ runs[TopKey(lastOp)] = 1

\* C12 amended: line_starts and source_length are reused exactly when the
\* source text of the file was not set since they were verified, and run
\* again after every set_source_text, also of an equal text. line_start,
\* line_index and line_range are reused exactly when no query they recorded
\* reading has changed its value since they were verified: the recorded
\* queries are brought up to date first, and when each returns the value it
\* had (the text set is equal, or yields the same line_starts and length)
\* the cached value is returned and the function does not run.
C12_ReusedIffReadsUnchanged ==
    [][(lastOp'.op \in DerivedOps /\ ~panicked') =>
          LET K    == TopKey(lastOp')
              had  == K \in DOMAIN memos
              ran  == K \in executed'
          IN /\ ~had => ran
             /\ (had /\ K[1] \in ReadsInputOnly) =>
                   (ran <=> source_text[K[2]].changed_at > memos[K].verified_at)
             /\ (had /\ K[1] \notin ReadsInputOnly) =>
                   /\ ran <=> \E d \in DepsOf(memos[K]) :
                                  /\ d \in DOMAIN memos'
                                  /\ memos'[d].changed_at > memos[K].verified_at
                   /\ (\A d \in DepsOf(memos[K]) :
                          /\ d \in DOMAIN memos /\ d \in DOMAIN memos'
                          /\ memos[d].changed_at <= memos[K].verified_at
                          /\ memos'[d].value = memos[d].value) => ~ran]_vars

\* line_index was evaluated again after the source text was set: line_starts
\* ran and line_index did not.
C12_Witness ==
    /\ Did({"line_index"})
    /\ previous # None
    /\ source_text[lastOp.f].changed_at > previous[1].at
    /\ Key("line_starts", lastOp.f, 0) \in executed
    /\ TopKey(lastOp) \notin executed
    /\ result = previous[1].value

\* The nesting of query functions an evaluation of a key can reach along the
\* read graph.
RECURSIVE NestingOf(_)
NestingOf(key) ==
    IF ReadGraph(key) = {} THEN 1
    ELSE 1 + (CHOOSE n \in {NestingOf(d) : d \in ReadGraph(key)} :
                 \A d \in ReadGraph(key) : NestingOf(d) <= n)

\* C13: the read graph is acyclic (every query a function reads nests less
\* deep than the query itself) and the reads each memo recorded are reads of
\* that graph or of source_text; so no evaluation requests a query already in
\* progress, the functions in progress nest no deeper than the graph allows,
\* only queries reached from the one evaluated run, and with the source text
\* set the evaluation finishes with an answer.
C13_EvaluationTerminates ==
    /\ ~cycle
    /\ \A k \in DOMAIN memos :
          /\ DepsOf(memos[k]) \subseteq
                (IF k[1] \in ReadsInputOnly THEN {Key("source_text", k[2], 0)}
                 ELSE ReadGraph(k))
          /\ \A d \in ReadGraph(k) : NestingOf(d) < NestingOf(k)
    /\ lastOp.op \in DerivedOps =>
          /\ depth <= NestingOf(TopKey(lastOp))
          /\ executed \subseteq ReadClosure(TopKey(lastOp))
          /\ Cardinality(executed) <= Cardinality(ReadClosure(TopKey(lastOp)))
          /\ source_text[lastOp.f].set => ~panicked
    /\ lastOp.op \notin DerivedOps => depth = 0 /\ executed = {}

\* line_range of the last line ran every query it can reach, three deep.
C13_Witness ==
    /\ Did(LineRangeOps)
    /\ ~cycle
    /\ depth = NestingOf(TopKey(lastOp))
    /\ executed = ReadClosure(TopKey(lastOp))
    /\ Key("source_length", lastOp.f, 0) \in executed
    /\ result # None

\* C14: no usize operation of an operation wraps; on a file whose source
\* text is set, line_range evaluates
\* `line_index + 1`, and reads the second line_start, only when the first
\* line_start is present, which is for line_index <= |line_starts|;
\* line_range of the largest usize is absent and does not abort; and every
\* `offset + 1` of line_starts is at most the source length.
C14_LineRangeNoOverflow ==
    /\ ~wrapped
    /\ (lastOp.op \in LineRangeOps /\ source_text[lastOp.f].set) =>
          LET K      == TopKey(lastOp)
              start  == Ask("line_start", lastOp.f, lastOp.a)
              starts == Ask("line_starts", lastOp.f, 0)
          IN /\ ~panicked
             /\ start = None =>
                   memos[K].deps = <<Key("line_start", lastOp.f, lastOp.a)>>
             /\ start # None =>
                   /\ lastOp.a <= Len(starts)
                   /\ ~AddUsize(lastOp.a, 1).wrapped
                   /\ memos[K].deps = <<Key("line_start", lastOp.f, lastOp.a),
                                        Key("line_start", lastOp.f, lastOp.a + 1)>>
             /\ lastOp.a = USIZE_MAX => result = None
    /\ Did({"line_starts"}) =>
          /\ ~LineStartsWraps(TextOf(lastOp.f))
          /\ \A p \in NewlinesOf(TextOf(lastOp.f)) :
                /\ p + 1 <= Len(TextOf(lastOp.f))
                /\ \E j \in 1 .. Len(result) : result[j] = p + 1

\* line_range of the largest usize answered absent after reading the first
\* line_start only.
C14_Witness ==
    /\ Did(LineRangeOps)
    /\ lastOp.a = USIZE_MAX
    /\ result = None
    /\ ~wrapped
    /\ executed = {TopKey(lastOp), Key("line_start", lastOp.f, USIZE_MAX),
                   Key("line_starts", lastOp.f, 0)}

\* The stamp of a recorded dependency: an input's last write, a derived
\* query's last change of value.
StampOf(d) ==
    IF d[1] \in InputQueries THEN InputSlot(d).changed_at ELSE memos[d].changed_at

\* Every stamp is at most the current revision, and a memo verified in the
\* current revision is at least as new as every dependency it recorded.
StampsBounded ==
    /\ revision >= StartRevision
    /\ \A f \in FileIds :
          /\ file_name[f].changed_at <= revision
          /\ source_text[f].changed_at <= revision
    /\ \A k \in DOMAIN memos :
          /\ memos[k].changed_at <= memos[k].verified_at
          /\ memos[k].verified_at <= revision
          /\ memos[k].verified_at = revision =>
                \A d \in DepsOf(memos[k]) :
                   /\ d[1] \in DerivedQueries => d \in DOMAIN memos
                   /\ StampOf(d) <= memos[k].verified_at

====
